---- MODULE Spec2Model ----
(***************************************************************************)
(* Model of litecore::QueryParser (LiteCore/Query/QueryParser.cc): the     *)
(* compiler of a JSON-shaped where/sort expression into SQL text.          *)
(*                                                                         *)
(* Strings of the input are sequences of one-character strings, so that    *)
(* the byte tests of the code ('$', '.', '[', '-', '+', apostrophe) are    *)
(* computed.  An output buffer is a sequence of pieces [t, u]: t is the    *)
(* text appended, u tells whether the bytes were copied from a string of   *)
(* the input expression (TRUE) or are text of the compiler (FALSE).        *)
(***************************************************************************)
EXTENDS Integers, Sequences, FiniteSets, TLC

VARIABLES
    pc,             \* "new" | "done" | "failed" | "asserted": outcome of parse()
    whereIn,        \* the whereExpression handed to parse() (NullPtr if absent)
    sortIn,         \* the sortExpression handed to parse() (NullPtr if absent)
    tableName,      \* _tableName
    jsonColumnName, \* _jsonColumnName
    sql,            \* _sql
    sortSQL,        \* _sortSQL
    propertyPath,   \* _propertyPath
    ftsProperties,  \* _ftsProperties
    ftsLog,         \* history: <<path, k>> of every "FTSk" written by parseFTSMatch
    sortLog,        \* history: <<term, text>> of every term written by writeOrderBy
    fromOut,        \* last result of fromClause() (NotRead before the first call)
    namesOut        \* last result of ftsTableNames() (NotRead before the first call)

vars == <<pc, whereIn, sortIn, tableName, jsonColumnName, sql, sortSQL,
          propertyPath, ftsProperties, ftsLog, sortLog, fromOut, namesOut>>

\* ------------------------------------------------------------------ bounds

\* Largest number of sub-predicates in the array of a boolean connective.
MaxTerms == 2
\* Largest number of terms in a sort array.
MaxSortTerms == 2

\* ------------------------------------------------------------ fleece values

NullPtr == [type |-> "nullptr"]
Null == [type |-> "null"]
Bool(b) == [type |-> "boolean", b |-> b]
\* A number: its integer value, whether it is stored as an integer, and the
\* fraction digits of its decimal form ("" for an integer).
Num(n, isInt, frac) == [type |-> "number", n |-> n, isInt |-> isInt, frac |-> frac]
IntV(n) == Num(n, TRUE, "")
Str(s) == [type |-> "string", s |-> s]
Arr(a) == [type |-> "array", a |-> a]
\* A dictionary: its entries in iteration order (Fleece keeps keys sorted).
Dict(d) == [type |-> "dict", d |-> d]
KV(k, v) == [k |-> k, v |-> v]

\* Value::asString: the bytes of a string; a null slice for any other type.
\* An empty string value still points into the encoded data (buf non-null).
asString(v) ==
    IF v.type = "string" THEN [buf |-> TRUE, s |-> v.s] ELSE [buf |-> FALSE, s |-> <<>>]

\* Value::asBool: false for null and false and for a number whose integer
\* value is 0; true for every other value.
asBool(v) ==
    CASE v.type = "boolean" -> v.b
      [] v.type = "null" -> FALSE
      [] v.type = "number" -> v.n # 0
      [] OTHER -> TRUE

isInteger(v) == v.type = "number" /\ v.isInt

\* ----------------------------------------------------------- output pieces

Code(t) == [t |-> t, u |-> FALSE]
Txt(ts) == [i \in 1..Len(ts) |-> Code(ts[i])]
User(s) == [i \in 1..Len(s) |-> [t |-> s[i], u |-> TRUE]]

Digit == <<"0", "1", "2", "3", "4", "5", "6", "7", "8", "9">>

RECURSIVE NatPieces(_)
NatPieces(n) ==
    IF n < 10 THEN <<Code(Digit[n + 1])>>
    ELSE NatPieces(n \div 10) \o <<Code(Digit[(n % 10) + 1])>>

\* ostream << integer
IntPieces(n) == IF n < 0 THEN <<Code("-")>> \o NatPieces(0 - n) ELSE NatPieces(n)

\* Value::toString of a number: its decimal form.
NumPieces(v) == IntPieces(v.n) \o (IF v.frac = "" THEN <<>> ELSE <<Code(v.frac)>>)

\* ------------------------------------------------------------------ tables

kRelationals == <<
    [op |-> <<"$","e","q">>,             sqlOp |-> " = ",      type |-> 0],
    [op |-> <<"$","n","e">>,             sqlOp |-> " <> ",     type |-> 0],
    [op |-> <<"$","l","t">>,             sqlOp |-> " < ",      type |-> 0],
    [op |-> <<"$","l","t","e">>,         sqlOp |-> " <= ",     type |-> 0],
    [op |-> <<"$","l","e">>,             sqlOp |-> " <= ",     type |-> 0],
    [op |-> <<"$","g","t">>,             sqlOp |-> " > ",      type |-> 0],
    [op |-> <<"$","g","t","e">>,         sqlOp |-> " >= ",     type |-> 0],
    [op |-> <<"$","g","e">>,             sqlOp |-> " >= ",     type |-> 0],
    [op |-> <<"$","l","i","k","e">>,     sqlOp |-> " LIKE ",   type |-> 0],
    [op |-> <<"$","t","y","p","e">>,     sqlOp |-> "",         type |-> 1],
    [op |-> <<"$","e","x","i","s","t","s">>, sqlOp |-> "",     type |-> 2],
    [op |-> <<"$","i","n">>,             sqlOp |-> " IN ",     type |-> 3],
    [op |-> <<"$","n","i","n">>,         sqlOp |-> " NOT IN ", type |-> 3],
    [op |-> <<"$","s","i","z","e">>,     sqlOp |-> "",         type |-> 4],
    [op |-> <<"$","a","l","l">>,         sqlOp |-> "",         type |-> 5],
    [op |-> <<"$","a","n","y">>,         sqlOp |-> "",         type |-> 6],
    [op |-> <<"$","e","l","e","m","M","a","t","c","h">>, sqlOp |-> "", type |-> 7],
    [op |-> <<"$","m","a","t","c","h">>, sqlOp |-> " MATCH ",  type |-> 8] >>

kTypeNames == <<
    <<"n","u","l","l">>,
    <<"b","o","o","l","e","a","n">>,
    <<"n","u","m","b","e","r">>,
    <<"s","t","r","i","n","g">>,
    <<"b","l","o","b">>,
    <<"a","r","r","a","y">>,
    <<"o","b","j","e","c","t">> >>

kAnd == <<"$","a","n","d">>
kOr  == <<"$","o","r">>
kNor == <<"$","n","o","r">>
kNot == <<"$","n","o","t">>

\* The sqlColumn that propertyGetter() is given when it is called with one
\* argument (writeOrderBy): a default fixed at compile time.
kDefaultSqlColumn == "body"

\* --------------------------------------------------------- static helpers

\* The compiler's mutable members together with its outcome so far:
\* st is "ok" until fail() throws ("invalid") or an internal assertion
\* fails ("assert");
\* once st is not "ok" the rest of the call is skipped (the exception unwinds).
fail(q) == [q EXCEPT !.st = "invalid"]

\* _sql << pieces
Out(q, ps) == IF q.st = "ok" THEN [q EXCEPT !.sql = @ \o ps] ELSE q

\* _sortSQL << pieces
SortOut(q, ps) == IF q.st = "ok" THEN [q EXCEPT !.sortSQL = @ \o ps] ELSE q

Min(S) == CHOOSE x \in S : \A y \in S : x <= y

getSpecialKey(val) ==
    LET d == IF val.type = "dict" THEN val.d ELSE <<>>
        idx == {i \in 1..Len(d) : Len(d[i].k) > 0 /\ d[i].k[1] = "$"}
    IN IF idx = {} THEN [first |-> <<>>, buf |-> FALSE, second |-> NullPtr]
       ELSE [first |-> d[Min(idx)].k, buf |-> TRUE, second |-> d[Min(idx)].v]

\* Delimiter::next: writes the word every time but the first.
Delimiter_next(q, first, word) == IF first THEN q ELSE Out(q, <<Code(word)>>)

appendPaths(parent, child) ==
    LET c == IF Len(child) >= 1 /\ child[1] = "$"
             THEN (IF Len(child) >= 2 /\ child[2] = "."
                   THEN SubSeq(child, 3, Len(child))
                   ELSE SubSeq(child, 2, Len(child)))
             ELSE child
    IN IF parent = <<>> THEN c
       ELSE IF Len(c) >= 1 /\ c[1] = "[" THEN parent \o c
       ELSE parent \o <<".">> \o c

\* The pieces writeSQLString(out, str) appends to out.
RECURSIVE DoubledApostrophes(_)
DoubledApostrophes(s) ==
    IF s = <<>> THEN <<>>
    ELSE (IF Head(s) = "'" THEN User(<<"'", "'">>) ELSE User(<<Head(s)>>))
         \o DoubledApostrophes(Tail(s))

writeSQLString(str) ==
    LET simple == \A i \in 1..Len(str) : str[i] # "'"
    IN <<Code("'")>>
       \o (IF simple THEN User(str) ELSE DoubledApostrophes(str))
       \o <<Code("'")>>

\* findRelation: the relation of a term's value and the value it applies to.
\* rel = 0 stands for nullptr; st = "invalid" when fail() was called.
findRelation(value) ==
    LET special == getSpecialKey(value)
        op == IF special.second.type # "nullptr" THEN special.first ELSE <<"$","e","q">>
        v == IF special.second.type # "nullptr" THEN special.second ELSE value
        hit == {i \in 1..Len(kRelationals) : kRelationals[i].op = op}
    IN IF special.second.type = "nullptr" /\ value.type = "dict"
       THEN [st |-> "ok", rel |-> 0, value |-> value]
       ELSE IF hit = {} THEN [st |-> "invalid", rel |-> 0, value |-> v]
       ELSE [st |-> "ok", rel |-> Min(hit), value |-> v]

\* The index of a type name in kTypeNames (0-based), or -1.
typeCodeOf(value) ==
    LET typeName == asString(value).s
        hit == {i \in 1..Len(kTypeNames) : kTypeNames[i] = typeName}
    IN IF hit = {} THEN -1 ELSE Min(hit) - 1

\* --------------------------------------------------------------- literals

\* Writes a Fleece value as a SQL literal.
writeLiteral(q, literal) ==
    IF q.st # "ok" THEN q
    ELSE CASE literal.type = "number" -> Out(q, NumPieces(literal))
           [] literal.type = "boolean" ->
                Out(q, <<Code(IF asBool(literal) THEN "1" ELSE "0")>>)
           [] literal.type = "string" -> Out(q, writeSQLString(asString(literal).s))
           [] literal.type = "array" ->
                IF Len(literal.a) # 1 THEN fail(q)
                ELSE LET ident == literal.a[1]
                         str == asString(ident)
                     IN IF isInteger(ident)
                        THEN Out(q, <<Code(":_")>> \o IntPieces(ident.n))
                        ELSE IF ~str.buf THEN fail(q)
                        ELSE Out(q, <<Code(":_")>> \o User(str.s))
           [] OTHER -> fail(q)

\* The loop of the $in/$nin case: literals separated by ", ".
RECURSIVE writeInList(_, _, _)
writeInList(q, value, i) ==
    IF q.st # "ok" THEN q
    ELSE IF value.type # "array" THEN fail(q)
    ELSE IF i > Len(value.a) THEN q
    ELSE writeInList(writeLiteral(Delimiter_next(q, i = 1, ", "), value.a[i]), value, i + 1)

\* The loop of the $all/$any case: ", " before every literal.
RECURSIVE writeContainsList(_, _, _)
writeContainsList(q, value, i) ==
    IF q.st # "ok" THEN q
    ELSE IF value.type # "array" THEN fail(q)
    ELSE IF i > Len(value.a) THEN q
    ELSE writeContainsList(writeLiteral(Out(q, <<Code(", ")>>), value.a[i]), value, i + 1)

\* ------------------------------------------------------- property getters

writePropertyPathString(q, property) ==
    Out(q, writeSQLString(appendPaths(q.propertyPath, property)))

writePropertyGetterLeftOpen(q, fn, property) ==
    writePropertyPathString(Out(q, Txt(<<fn, "(", q.jsonColumnName, ", ">>)), property)

writePropertyGetter(q, fn, property) ==
    IF q.st # "ok" THEN q
    ELSE IF property = <<"_","i","d">>
    THEN (IF fn # "fl_value" THEN fail(q) ELSE Out(q, <<Code("key")>>))
    ELSE IF property = <<"_","s","e","q","u","e","n","c","e">>
    THEN (IF fn # "fl_value" THEN fail(q) ELSE Out(q, <<Code("sequence")>>))
    ELSE Out(writePropertyGetterLeftOpen(q, fn, property), <<Code(")")>>)

\* A QueryParser as its constructor leaves it.
NewParser(table, column) ==
    [tableName |-> table, jsonColumnName |-> column, sql |-> <<>>, sortSQL |-> <<>>,
     propertyPath |-> <<>>, ftsProperties |-> <<>>, st |-> "ok",
     ftsLog |-> <<>>, sortLog |-> <<>>]

\* static propertyGetter: the WHERE text of a throwaway parser.
propertyGetter(property, sqlColumn) ==
    writePropertyGetter(NewParser("XXX", sqlColumn), "fl_value", property).sql

\* -------------------------------------------------------------- $elemMatch

parseElemMatchTerm(q, table, value0) ==
    LET fr == findRelation(value0)
        rel == kRelationals[fr.rel]
        value == fr.value
    IN IF q.st # "ok" THEN q
       ELSE IF fr.st # "ok" THEN fail(q)
       ELSE IF fr.rel = 0 THEN fail(q)
       ELSE CASE rel.type = 0 ->
                   writeLiteral(Out(q, Txt(<<table, ".value", rel.sqlOp>>)), value)
              [] rel.type = 1 ->
                   LET q1 == Out(q, Txt(<<table, ".type", "=">>))
                       typeCode == typeCodeOf(value)
                   IN IF typeCode < 0 THEN fail(q1) ELSE Out(q1, IntPieces(typeCode))
              [] rel.type = 2 ->
                   Out(IF ~asBool(value) THEN Out(q, <<Code("NOT ")>>) ELSE q,
                       Txt(<<"(", table, ".type >= 0", ")">>))
              [] rel.type = 3 ->
                   Out(writeInList(Out(q, Txt(<<table, ".value", rel.sqlOp, "(">>)), value, 1),
                       <<Code(")")>>)
              [] rel.type = 4 ->
                   writeLiteral(Out(q, Txt(<<"count", "(", table, ".*", ")", "=">>)), value)
              [] rel.type \in {5, 6, 7} -> fail(q)
              [] OTHER -> [q EXCEPT !.st = "assert"]

parseElemMatch(q, property, match) ==
    Out(parseElemMatchTerm(
            Out(writePropertyGetter(Out(q, Txt(<<"EXISTS ", "(", "SELECT 1 FROM ">>)),
                                    "fl_each", property),
                <<Code(" WHERE ")>>),
            "fl_each", match),
        <<Code(")")>>)

\* --------------------------------------------------------- full-text match

\* FTSPropertyIndex with a search that never finds the path.
FTSPropertyIndex_NeverFound(q, path) == 0

FTSPropertyIndex(q, path) ==
    LET hit == {i \in 1..Len(q.ftsProperties) : q.ftsProperties[i] = path}
    IN IF hit = {} THEN 0 ELSE Min(hit)

parseFTSMatch(q, property, match) ==
    LET path == appendPaths(q.propertyPath, property)
        found == FTSPropertyIndex(q, path)
        q1 == IF found = 0 THEN [q EXCEPT !.ftsProperties = Append(@, path)] ELSE q
        ftsTableNo == IF found = 0 THEN Len(q1.ftsProperties) ELSE found
        q2 == Out(q1, Txt(<<"(", "FTS">>) \o IntPieces(ftsTableNo) \o <<Code(".text MATCH ")>>)
        q3 == writeLiteral([q2 EXCEPT !.ftsLog = Append(@, <<path, ftsTableNo>>)], match)
    IN IF q.st # "ok" THEN q
       ELSE Out(q3, <<Code(" AND FTS")>> \o IntPieces(ftsTableNo)
                    \o Txt(<<".rowid = ", q.tableName, ".sequence", ")">>))

RECURSIVE fromJoins(_, _)
fromJoins(q, i) ==
    IF i > Len(q.ftsProperties) THEN <<>>
    ELSE Txt(<<", ", "\"", q.tableName, "::">>) \o User(q.ftsProperties[i])
         \o Txt(<<"\"", " AS FTS">>) \o IntPieces(i) \o fromJoins(q, i + 1)

fromClause(q) == <<Code(q.tableName)>> \o fromJoins(q, 1)

ftsTableNames(q) ==
    [i \in 1..Len(q.ftsProperties) |->
        Txt(<<"\"", q.tableName, "::">>) \o User(q.ftsProperties[i]) \o <<Code("\"")>>]

\* ------------------------------------------------------------- predicates

RECURSIVE parsePredicate(_, _)
RECURSIVE writeBooleanExprLoop(_, _, _, _)
RECURSIVE implicitAndLoop(_, _, _)
RECURSIVE parseTerm(_, _, _)
RECURSIVE parseSubPropertyTerm(_, _, _)

\* writeBooleanExpr writing the operator before every term, the first included.
writeBooleanExpr_LeadingOp(q, terms, op) ==
    IF q.st # "ok" THEN q
    ELSE IF terms.type = "nullptr" THEN fail(q)
    ELSE IF terms.type # "array" THEN fail(q)
    ELSE writeBooleanExprLoop(Out(q, <<Code(op)>>), terms.a, op, 1)

\* Writes a series of terms separated by AND or OR operators.
writeBooleanExpr(q, terms, op) ==
    IF q.st # "ok" THEN q
    ELSE IF terms.type = "nullptr" THEN fail(q)
    ELSE IF terms.type # "array" THEN fail(q)
    ELSE writeBooleanExprLoop(q, terms.a, op, 1)

writeBooleanExprLoop(q, a, op, i) ==
    IF q.st # "ok" \/ i > Len(a) THEN q
    ELSE writeBooleanExprLoop(parsePredicate(Delimiter_next(q, i = 1, op), a[i]),
                              a, op, i + 1)

\* No special operator: each key is a property path, with implicit 'and'.
implicitAndLoop(q, d, i) ==
    IF q.st # "ok" \/ i > Len(d) THEN q
    ELSE implicitAndLoop(parseTerm(Delimiter_next(q, i = 1, " AND "), d[i].k, d[i].v),
                         d, i + 1)

\* parsePredicate whose $not branch rejects only an empty array and compiles
\* the first element of a longer one.
parsePredicate_NotTakesFirst(q, query) ==
    LET special == getSpecialKey(query)
    IN IF q.st # "ok" THEN q
       ELSE IF query.type = "nullptr" THEN fail(q)
       ELSE IF query.type # "dict" THEN fail(q)
       ELSE IF ~special.buf THEN implicitAndLoop(q, query.d, 1)
       ELSE IF special.first = kAnd THEN writeBooleanExpr(q, special.second, " AND ")
       ELSE IF special.first = kOr THEN writeBooleanExpr(q, special.second, " OR ")
       ELSE IF special.first = kNor
       THEN Out(writeBooleanExpr(Out(q, Txt(<<"NOT ", "(">>)), special.second, " OR "),
                <<Code(")")>>)
       ELSE IF special.first = kNot
       THEN (IF special.second.type # "array" THEN fail(q)
             ELSE IF Len(special.second.a) < 1 THEN fail(q)
             ELSE Out(parsePredicate(Out(q, Txt(<<"NOT ", "(">>)), special.second.a[1]),
                      <<Code(")")>>))
       ELSE q

\* Parses a boolean-valued expression, usually the top level of a query.
parsePredicate(q, query) ==
    LET special == getSpecialKey(query)
    IN IF q.st # "ok" THEN q
       ELSE IF query.type = "nullptr" THEN fail(q)
       ELSE IF query.type # "dict" THEN fail(q)
       ELSE IF ~special.buf THEN implicitAndLoop(q, query.d, 1)
       ELSE IF special.first = kAnd THEN writeBooleanExpr(q, special.second, " AND ")
       ELSE IF special.first = kOr THEN writeBooleanExpr(q, special.second, " OR ")
       ELSE IF special.first = kNor
       THEN Out(writeBooleanExpr(Out(q, Txt(<<"NOT ", "(">>)), special.second, " OR "),
                <<Code(")")>>)
       ELSE IF special.first = kNot
       THEN (IF special.second.type # "array" THEN fail(q)
             ELSE IF Len(special.second.a) # 1 THEN fail(q)
             ELSE Out(parsePredicate(Out(q, Txt(<<"NOT ", "(">>)), special.second.a[1]),
                      <<Code(")")>>))
       ELSE q

\* Parses a key/value mapping, like "x": {"$gt": 5}
parseTerm(q, key, value0) ==
    LET fr == findRelation(value0)
        rel == kRelationals[fr.rel]
        value == fr.value
    IN IF q.st # "ok" THEN q
       ELSE IF fr.st # "ok" THEN fail(q)
       ELSE IF fr.rel = 0 THEN parseSubPropertyTerm(q, key, value)
       ELSE CASE rel.type = 0 ->
                   writeLiteral(Out(writePropertyGetter(q, "fl_value", key),
                                    <<Code(rel.sqlOp)>>), value)
              [] rel.type = 1 ->
                   LET q1 == Out(writePropertyGetter(q, "fl_type", key), <<Code("=")>>)
                       typeCode == typeCodeOf(value)
                   IN IF q1.st # "ok" THEN q1
                      ELSE IF typeCode < 0 THEN fail(q1)
                      ELSE Out(q1, IntPieces(typeCode))
              [] rel.type = 2 ->
                   writePropertyGetter(
                       IF ~asBool(value) THEN Out(q, <<Code("NOT ")>>) ELSE q,
                       "fl_exists", key)
              [] rel.type = 3 ->
                   Out(writeInList(Out(writePropertyGetter(q, "fl_value", key),
                                       Txt(<<rel.sqlOp, "(">>)), value, 1),
                       <<Code(")")>>)
              [] rel.type = 4 ->
                   writeLiteral(Out(writePropertyGetter(q, "fl_count", key),
                                    <<Code("=")>>), value)
              [] rel.type \in {5, 6} ->
                   Out(writeContainsList(
                           Out(writePropertyGetterLeftOpen(q, "fl_contains", key),
                               <<Code(IF rel.type = 5 THEN ", 1" ELSE ", 0")>>),
                           value, 1),
                       <<Code(")")>>)
              [] rel.type = 7 -> parseElemMatch(q, key, value)
              [] rel.type = 8 -> parseFTSMatch(q, key, value)
              [] OTHER -> [q EXCEPT !.st = "assert"]

\* Parses a nested predicate inside a property.
parseSubPropertyTerm(q, property, value) ==
    LET savedPropertyPath == q.propertyPath
        q1 == [q EXCEPT !.propertyPath = appendPaths(@, property)]
        q2 == Out(parsePredicate(Out(q1, <<Code("(")>>), value), <<Code(")")>>)
    IN IF q2.st # "ok" THEN q2
       ELSE [q2 EXCEPT !.propertyPath = savedPropertyPath]

\* ----------------------------------------------------------------- sorting

writeOrderByFTSRank(q, property) ==
    SortOut(q, Txt(<<"rank", "(", "matchinfo", "(", "\"", q.tableName, "::">>)
               \o User(property) \o Txt(<<"\"", ")", ")", " DESC">>))

\* The text writeOrderBy appends to _sortSQL for a term that is no FTS path.
orderByText(str) ==
    LET signed == Len(str) >= 1 /\ str[1] \in {"-", "+"}
        ascending == IF signed THEN str[1] = "+" ELSE TRUE
        name == IF signed THEN Tail(str) ELSE str
    IN (IF name = <<"_","i","d">> THEN <<Code("key")>>
        ELSE IF name = <<"_","s","e","q","u","e","n","c","e">> THEN <<Code("sequence")>>
        ELSE propertyGetter(name, kDefaultSqlColumn))
       \o (IF ~ascending THEN <<Code(" DESC")>> ELSE <<>>)

\* writeOrderBy consuming the sign before it looks the term up in the FTS paths.
writeOrderBy_SignFirst(q, property) ==
    LET str == asString(property).s
        name == IF Len(str) >= 1 /\ str[1] \in {"-", "+"} THEN Tail(str) ELSE str
        q1 == IF FTSPropertyIndex(q, name) > 0 THEN writeOrderByFTSRank(q, name)
              ELSE SortOut(q, orderByText(str))
    IN IF q.st # "ok" THEN q
       ELSE IF Len(str) < 1 THEN fail(q)
       ELSE [q1 EXCEPT !.sortLog =
                Append(@, <<str, SubSeq(q1.sortSQL, Len(q.sortSQL) + 1, Len(q1.sortSQL))>>)]

writeOrderBy(q, property) ==
    LET str == asString(property).s
        q1 == IF FTSPropertyIndex(q, str) > 0 THEN writeOrderByFTSRank(q, str)
              ELSE SortOut(q, orderByText(str))
    IN IF q.st # "ok" THEN q
       ELSE IF Len(str) < 1 THEN fail(q)
       ELSE [q1 EXCEPT !.sortLog =
                Append(@, <<str, SubSeq(q1.sortSQL, Len(q.sortSQL) + 1, Len(q1.sortSQL))>>)]

RECURSIVE parseSortLoop(_, _, _)
parseSortLoop(q, a, i) ==
    IF q.st # "ok" \/ i > Len(a) THEN q
    ELSE parseSortLoop(
             writeOrderBy(IF i = 1 THEN q ELSE SortOut(q, <<Code(", ")>>), a[i]),
             a, i + 1)

parseSort(q, expr) ==
    IF q.st # "ok" THEN q
    ELSE IF expr.type = "nullptr" THEN SortOut(q, <<Code("key")>>)
    ELSE IF expr.type = "string" THEN writeOrderBy(q, expr)
    ELSE IF expr.type = "array" THEN parseSortLoop(q, expr.a, 1)
    ELSE fail(q)

\* ------------------------------------------------------------------ facade

parse(q, whereExpression, sortExpression) ==
    parseSort(IF whereExpression.type # "nullptr"
              THEN parsePredicate(q, whereExpression) ELSE q,
              sortExpression)

\* ------------------------------------------------------------------ inputs

SeqUpTo(S, n) == UNION {[1..k -> S] : k \in 0..n}

pA == <<"a">>
pB == <<"b">>
pId == <<"_","i","d">>
pSequence == <<"_","s","e","q","u","e","n","c","e">>
pApostrophe == <<"a","'","b">>
pQuote == <<"a","\"","b">>
pIndex == <<"[","0","]">>
pDotted == <<"a",".","b">>
pMinusA == <<"-","a">>
kBogus == <<"$","b","o","g","u","s">>

\* Property names used as dictionary keys.
Keys == {pA, pB, pId, pSequence, pApostrophe, pQuote, pIndex, pDotted, pMinusA, <<>>}

\* The operator names looked up by findRelation, and one that is in no table.
TermOps == {kRelationals[i].op : i \in 1..Len(kRelationals)} \cup {kBogus}

Scalars ==
    {IntV(1), IntV(0), Num(1, FALSE, ".5"), Bool(TRUE), Bool(FALSE), Null,
     Str(<<"x">>), Str(<<"o","'","k">>), Str(<<>>),
     Str(<<"s","t","r","i","n","g">>), Str(<<"b","l","o","b">>)}

\* Arrays at a literal position: placeholders and the shapes that are none.
Placeholders ==
    {Arr(<<>>), Arr(<<IntV(7)>>), Arr(<<IntV(-1)>>), Arr(<<Str(<<"p">>)>>),
     Arr(<<Str(<<>>)>>), Arr(<<Str(<<"p","'","(">>)>>), Arr(<<IntV(1), IntV(2)>>),
     Arr(<<Null>>), Arr(<<Bool(TRUE)>>), Arr(<<Num(1, FALSE, ".5")>>),
     Arr(<<Arr(<<IntV(1)>>)>>), Arr(<<Dict(<<>>)>>)}

\* Lists of literals, for $in/$nin/$all/$any.
Lists ==
    {Arr(<<IntV(1), Str(<<"o","'","k">>)>>), Arr(<<Arr(<<IntV(7)>>), Bool(FALSE)>>),
     Arr(<<IntV(1), Null>>)}

\* What stands under the operator of $elemMatch.
ElemMatchPayloads ==
    {IntV(1), Str(<<"x">>), Dict(<<>>), Dict(<<KV(pA, IntV(1))>>)}
    \cup {Dict(<<KV(op, v)>>) : op \in TermOps,
          v \in {IntV(1), Bool(TRUE), Bool(FALSE), Str(<<"s","t","r","i","n","g">>),
                 Arr(<<IntV(1), IntV(2)>>), Arr(<<Str(<<"p">>)>>), Null}}

Payloads == Scalars \cup Placeholders \cup Lists

\* The values of a term: a literal (implicit $eq) or one operator and its payload.
TermValues ==
    Payloads
    \cup {Dict(<<KV(op, v)>>) : op \in TermOps, v \in Payloads}
    \cup {Dict(<<KV(<<"$","e","l","e","m","M","a","t","c","h">>, v)>>) :
             v \in ElemMatchPayloads}
    \cup {Dict(<<KV(<<"$","g","t">>, IntV(1)), KV(<<"$","l","t">>, IntV(5))>>)}

\* A value of every dispatch category, tried under every key.
KeyedValues ==
    {IntV(1), Str(<<"o","'","k">>),
     Dict(<<KV(<<"$","n","e">>, IntV(1))>>),
     Dict(<<KV(<<"$","t","y","p","e">>, Str(<<"s","t","r","i","n","g">>))>>),
     Dict(<<KV(<<"$","e","x","i","s","t","s">>, Bool(TRUE))>>),
     Dict(<<KV(<<"$","i","n">>, Arr(<<IntV(1)>>))>>),
     Dict(<<KV(<<"$","n","i","n">>, Arr(<<IntV(1)>>))>>),
     Dict(<<KV(<<"$","s","i","z","e">>, IntV(1))>>),
     Dict(<<KV(<<"$","a","l","l">>, Arr(<<IntV(1)>>))>>),
     Dict(<<KV(<<"$","a","n","y">>, Arr(<<IntV(1)>>))>>),
     Dict(<<KV(<<"$","e","l","e","m","M","a","t","c","h">>,
               Dict(<<KV(<<"$","g","t">>, IntV(1))>>))>>),
     Dict(<<KV(<<"$","m","a","t","c","h">>, Str(<<"x">>))>>),
     Dict(<<KV(kBogus, IntV(1))>>)}

Match(v) == Dict(<<KV(<<"$","m","a","t","c","h">>, v)>>)

\* One-key predicates.
SingleTerms ==
    {Dict(<<KV(pA, v)>>) : v \in TermValues}
    \cup {Dict(<<KV(k, v)>>) : k \in Keys, v \in KeyedValues}

\* Predicates of several keys, in key order.
MultiTerms ==
    {Dict(<<KV(pA, IntV(1)), KV(pB, Dict(<<KV(<<"$","g","t","e">>, IntV(1))>>))>>),
     Dict(<<KV(pA, Match(Str(<<"x">>))), KV(pB, Match(Str(<<"y">>)))>>),
     Dict(<<KV(pA, Match(Str(<<"x">>))), KV(pDotted, Match(Str(<<"y">>))),
            KV(pB, Match(Str(<<"z">>)))>>),
     Dict(<<KV(pA, Dict(<<KV(pB, Match(Str(<<"x">>)))>>)),
            KV(pDotted, Match(Str(<<"y">>))), KV(pB, Match(Str(<<"z">>)))>>),
     Dict(<<KV(pA, Dict(<<KV(pB, Match(Str(<<"x">>)))>>)),
            KV(pB, Match(Str(<<"y">>))), KV(pId, IntV(1))>>),
     Dict(<<KV(pA, Dict(<<KV(pB, Dict(<<KV(kBogus, IntV(1))>>))>>)),
            KV(pB, IntV(1))>>),
     Dict(<<KV(pA, IntV(1)), KV(pB, Dict(<<KV(pId, Dict(<<KV(kBogus, IntV(1))>>))>>))>>),
     Dict(<<KV(kAnd, Arr(<<Dict(<<KV(pA, IntV(1))>>)>>)), KV(pA, IntV(2))>>)}

\* Sub-property predicates: a key whose value is an object with no special key.
SubProperties ==
    {Dict(<<KV(k, p)>>) : k \in {pA, pIndex, pId},
       p \in {Dict(<<>>), Dict(<<KV(pB, IntV(1))>>), Dict(<<KV(pIndex, IntV(1))>>),
              Dict(<<KV(pB, Match(Str(<<"x">>)))>>),
              Dict(<<KV(pB, Dict(<<KV(pA, Match(Arr(<<Str(<<"p">>)>>)))>>))>>),
              Dict(<<KV(pB, Dict(<<KV(kBogus, IntV(1))>>))>>),
              Dict(<<KV(pB, Arr(<<IntV(1), IntV(2)>>))>>),
              Dict(<<KV(pId, IntV(1))>>),
              Dict(<<KV(kOr, Arr(<<Dict(<<KV(pA, IntV(1))>>),
                                   Dict(<<KV(pB, Dict(<<KV(pA, IntV(2))>>))>>)>>))>>)}}

\* The predicates a boolean connective combines.
Operands ==
    {Dict(<<>>), Dict(<<KV(pA, IntV(1))>>), Dict(<<KV(pA, Match(Str(<<"x">>)))>>),
     Dict(<<KV(pB, Match(Str(<<"y">>)))>>), Dict(<<KV(kBogus, IntV(1))>>),
     Dict(<<KV(kOr, Arr(<<Dict(<<KV(pA, IntV(1))>>), Dict(<<KV(pB, IntV(2))>>)>>))>>)}

Connectives == {kAnd, kOr, kNor, kNot, kBogus, <<"$","e","q">>}

Booleans ==
    {Dict(<<KV(c, Arr(a))>>) : c \in Connectives, a \in SeqUpTo(Operands, MaxTerms)}
    \cup {Dict(<<KV(c, v)>>) : c \in Connectives,
          v \in {IntV(1), Dict(<<KV(pA, IntV(1))>>), Arr(<<IntV(1)>>)}}

\* Connectives nested in connectives, over three distinct terms.
Groupings ==
    LET A == Dict(<<KV(pA, IntV(1))>>)
        B == Dict(<<KV(pB, IntV(2))>>)
        C == Dict(<<KV(<<"c">>, IntV(3))>>)
        AB == Dict(<<KV(pA, IntV(1)), KV(pB, IntV(2))>>)
        Inner == {Dict(<<KV(c, Arr(<<A, B>>))>>) : c \in {kAnd, kOr, kNor}}
                 \cup {AB, Dict(<<KV(kNot, Arr(<<A>>))>>),
                       Dict(<<KV(pA, Dict(<<KV(pA, IntV(1)), KV(pB, IntV(2))>>))>>)}
    IN {Dict(<<KV(c, Arr(<<x, C>>))>>) : c \in {kAnd, kOr, kNor}, x \in Inner}
       \cup {Dict(<<KV(c, Arr(<<C, x>>))>>) : c \in {kAnd, kOr, kNor}, x \in Inner}
       \cup {Dict(<<KV(kNot, Arr(<<x>>))>>) : x \in Inner}

WhereInputs ==
    {NullPtr, IntV(1), Str(<<"x">>), Arr(<<>>), Dict(<<>>)}
    \cup SingleTerms \cup MultiTerms \cup SubProperties \cup Booleans \cup Groupings

\* The where-expressions tried with every sort expression.
WhereForSort ==
    {NullPtr, Dict(<<KV(pA, IntV(1))>>), Dict(<<KV(pA, Match(Str(<<"x">>)))>>),
     Dict(<<KV(pQuote, Match(Str(<<"x">>)))>>),
     Dict(<<KV(pMinusA, Match(Str(<<"x">>)))>>),
     Dict(<<KV(pA, Match(Str(<<"x">>))), KV(pB, Match(Str(<<"y">>)))>>),
     Dict(<<KV(pA, Dict(<<KV(pB, Match(Str(<<"x">>)))>>))>>),
     Dict(<<KV(pA, Dict(<<KV(kBogus, IntV(1))>>))>>)}

SortTerms ==
    {Str(pA), Str(pMinusA), Str(<<"+","a">>), Str(pB), Str(pId), Str(<<"-">> \o pId),
     Str(pSequence), Str(<<"+">> \o pSequence), Str(pDotted), Str(pApostrophe),
     Str(pQuote), Str(<<"$",".","a">>), Str(<<"-">>), Str(<<>>)}

\* The terms a sort array combines.
SortOperands == {Str(pA), Str(<<"-","b">>), Str(pId), IntV(1)}

SortInputs ==
    {NullPtr, IntV(1), Bool(TRUE), Dict(<<>>)} \cup SortTerms
    \cup {Arr(a) : a \in SeqUpTo(SortOperands, MaxSortTerms)}

\* The sort expressions tried with every where-expression.
SortForWhere == {NullPtr, Str(pMinusA)}

Inputs == (WhereInputs \X SortForWhere) \cup (WhereForSort \X SortInputs)

\* ----------------------------------------------------------- the compiler

\* The compiler as the variables hold it.
Self ==
    [tableName |-> tableName, jsonColumnName |-> jsonColumnName, sql |-> sql,
     sortSQL |-> sortSQL, propertyPath |-> propertyPath,
     ftsProperties |-> ftsProperties, st |-> "ok", ftsLog |-> ftsLog,
     sortLog |-> sortLog]

NotRead == <<>>
NamesNotRead == << <<>> >>

\* QueryParser(tableName, jsonColumnName)
Init ==
    /\ pc = "new"
    /\ whereIn = NullPtr
    /\ sortIn = NullPtr
    /\ tableName = "kv_default"
    /\ jsonColumnName \in {"body", "doc"}
    /\ sql = <<>>
    /\ sortSQL = <<>>
    /\ propertyPath = <<>>
    /\ ftsProperties = <<>>
    /\ ftsLog = <<>>
    /\ sortLog = <<>>
    /\ fromOut = NotRead
    /\ namesOut = NamesNotRead

\* parse(whereExpression, sortExpression): the one build of a compiler.
\* parseJSON decodes its two texts with the external JSON converter and then
\* calls parse, so its builds are the builds of parse on the decoded trees.
Parse(w, s) ==
    /\ pc = "new"
    /\ LET q == parse(Self, w, s)
       IN /\ pc' = (CASE q.st = "ok" -> "done"
                      [] q.st = "invalid" -> "failed"
                      [] OTHER -> "asserted")
          /\ sql' = q.sql
          /\ sortSQL' = q.sortSQL
          /\ propertyPath' = q.propertyPath
          /\ ftsProperties' = q.ftsProperties
          /\ ftsLog' = q.ftsLog
          /\ sortLog' = q.sortLog
    /\ whereIn' = w
    /\ sortIn' = s
    /\ UNCHANGED <<tableName, jsonColumnName, fromOut, namesOut>>

\* fromClause(), read out after the build.
FromClause ==
    /\ pc # "new"
    /\ fromOut' = fromClause(Self)
    /\ UNCHANGED <<pc, whereIn, sortIn, tableName, jsonColumnName, sql, sortSQL,
                   propertyPath, ftsProperties, ftsLog, sortLog, namesOut>>

\* ftsTableNames(), read out after the build.
FtsTableNames ==
    /\ pc # "new"
    /\ namesOut' = ftsTableNames(Self)
    /\ UNCHANGED <<pc, whereIn, sortIn, tableName, jsonColumnName, sql, sortSQL,
                   propertyPath, ftsProperties, ftsLog, sortLog, fromOut>>

Next ==
    \/ \E in \in Inputs : Parse(in[1], in[2])
    \/ FromClause
    \/ FtsTableNames

Spec == Init /\ [][Next]_vars

\* ----------------------------------------------------- reading the outputs

Range(f) == {f[i] : i \in DOMAIN f}

Contains(seq, sub) ==
    \E i \in 0..(Len(seq) - Len(sub)) : SubSeq(seq, i + 1, i + Len(sub)) = sub

RelationOps == {kRelationals[i].op : i \in 1..Len(kRelationals)}

\* The term of a predicate that has exactly one key and no special key.
IsSingleTerm(w) == w.type = "dict" /\ Len(w.d) = 1 /\ ~getSpecialKey(w).buf

\* A text read as SQL reads it.  mode is "out" (outside any quotes), "sq"
\* (inside an apostrophe-quoted literal), "dq" (inside a double-quoted
\* identifier) or "ph" (in the name of a ':_' placeholder).  TRUE iff every
\* piece copied from the input lies inside an apostrophe-quoted literal that it
\* does not close, or is the name of a placeholder.
RECURSIVE QuotedFrom(_, _, _)
QuotedFrom(ps, i, mode) ==
    IF i > Len(ps) THEN mode \in {"out", "ph"}
    ELSE LET p == ps[i] IN
      CASE mode = "sq" ->
             IF p.t = "'"
             THEN (IF i < Len(ps) /\ ps[i + 1].t = "'" THEN QuotedFrom(ps, i + 2, "sq")
                   ELSE ~p.u /\ QuotedFrom(ps, i + 1, "out"))
             ELSE QuotedFrom(ps, i + 1, "sq")
        [] mode = "dq" ->
             ~p.u /\ QuotedFrom(ps, i + 1, IF p.t = "\"" THEN "out" ELSE "dq")
        [] mode = "ph" /\ p.u -> QuotedFrom(ps, i + 1, "ph")
        [] OTHER ->
             /\ ~p.u
             /\ QuotedFrom(ps, i + 1,
                    CASE p.t = "'" -> "sq"
                      [] p.t = "\"" -> "dq"
                      [] p.t = ":_" -> "ph"
                      [] OTHER -> "out")

Quoted(ps) == QuotedFrom(ps, 1, "out")

\* ------------------------------------------------------------------ claims

\* C1: a '$'-prefixed key outside the closed operator set makes the build fail
\* wherever it is taken as the special key: as the special key of the
\* predicate object (only $and, $or, $nor, $not are connectives) and as the
\* special key of a term's value (the table of $eq ... $match).  Stated as: no
\* build whose where-expression has such a key completes.
UnknownConnective(w) ==
    /\ w.type = "dict"
    /\ getSpecialKey(w).buf
    /\ getSpecialKey(w).first \notin {kAnd, kOr, kNor, kNot} \cup RelationOps

UnknownRelation(w) ==
    /\ w.type = "dict"
    /\ ~getSpecialKey(w).buf
    /\ \E i \in 1..Len(w.d) :
          getSpecialKey(w.d[i].v).buf /\ getSpecialKey(w.d[i].v).first \notin RelationOps

C1_UnknownOperatorFails ==
    pc = "done" => ~UnknownConnective(whereIn) /\ ~UnknownRelation(whereIn)

\* C2: in a successful build every string of the input that appears in WHERE,
\* ORDER BY, FROM or the FTS table names appears inside an apostrophe-quoted
\* literal with each apostrophe doubled, or as the name of a ':_' placeholder;
\* none is inlined unquoted or inside a delimiter it can close.
C2_QuotingSafety ==
    pc = "done" =>
        /\ Quoted(sql)
        /\ Quoted(sortSQL)
        /\ fromOut # NotRead => Quoted(fromOut)
        /\ namesOut # NamesNotRead => \A i \in 1..Len(namesOut) : Quoted(namesOut[i])

\* C3: fts_properties holds each full path of a $match exactly once, in the
\* order of first encounter; the k of every "FTSk" written into WHERE is the
\* 1-based position of its path in fts_properties, the k under which FROM
\* aliases the path's table and the position of its name in the table names.
RECURSIVE FirstEncounters(_, _)
FirstEncounters(log, i) ==
    IF i > Len(log) THEN <<>>
    ELSE IF \E j \in 1..(i - 1) : log[j][1] = log[i][1] THEN FirstEncounters(log, i + 1)
    ELSE <<log[i][1]>> \o FirstEncounters(log, i + 1)

\* The numbers that follow each piece `word` of a text, in order.
RECURSIVE NumbersAfter(_, _, _)
NumbersAfter(ps, word, i) ==
    IF i >= Len(ps) THEN <<>>
    ELSE IF ps[i] = Code(word)
    THEN <<ps[i + 1].t>> \o NumbersAfter(ps, word, i + 1)
    ELSE NumbersAfter(ps, word, i + 1)

FtsAlias(path, k) ==
    Txt(<<", ", "\"", tableName, "::">>) \o User(path)
    \o Txt(<<"\"", " AS FTS", Digit[k + 1]>>)

FtsName(path) == Txt(<<"\"", tableName, "::">>) \o User(path) \o <<Code("\"")>>

C3_FtsIndexConsistent ==
    /\ ftsProperties = FirstEncounters(ftsLog, 1)
    /\ \A i, j \in 1..Len(ftsProperties) : ftsProperties[i] = ftsProperties[j] => i = j
    /\ NumbersAfter(sql, "FTS", 1) = [i \in 1..Len(ftsLog) |-> Digit[ftsLog[i][2] + 1]]
    /\ pc = "done" =>
          NumbersAfter(sql, " AND FTS", 1) = [i \in 1..Len(ftsLog) |-> Digit[ftsLog[i][2] + 1]]
    /\ \A i \in 1..Len(ftsLog) :
          LET path == ftsLog[i][1]
              k == ftsLog[i][2]
          IN /\ k \in 1..Len(ftsProperties)
             /\ ftsProperties[k] = path
             /\ fromOut # NotRead => Contains(fromOut, FtsAlias(path, k))
             /\ namesOut # NamesNotRead => Len(namesOut) >= k /\ namesOut[k] = FtsName(path)

C3_Witness ==
    /\ pc = "done"
    /\ Len(ftsProperties) >= 2
    /\ \E i, j \in 1..Len(ftsLog) : i < j /\ ftsLog[i] = ftsLog[j]
    /\ \E i \in 1..Len(ftsLog) : ftsLog[i][2] = 2
    /\ propertyPath = <<>>
    /\ fromOut # NotRead
    /\ namesOut # NamesNotRead

\* C4: property_path has the same value after a public parse call as before
\* it, also when the call ends early with an invalid-query failure raised
\* inside a sub-property predicate: no step changes propertyPath.
C4_PathStackDiscipline == [][propertyPath' = propertyPath]_vars

\* C5: a term whose key is '_id' or '_sequence' fails for every operator whose
\* code generation uses a helper other than fl_value ($type, $exists, $size,
\* $all, $any, $elemMatch): no build of such a term completes.
ReservedKeys == {pId, pSequence}

NonValueHelperTypes == {1, 2, 4, 5, 6, 7}

C5_ReservedNeedsFlValue ==
    (/\ pc = "done"
     /\ IsSingleTerm(whereIn)
     /\ whereIn.d[1].k \in ReservedKeys
     /\ findRelation(whereIn.d[1].v).rel # 0)
    => kRelationals[findRelation(whereIn.d[1].v).rel].type \notin NonValueHelperTypes

\* C6: at a literal position an array is accepted only if it has exactly one
\* element that is an integer n (emitting ':_n') or a non-empty string s
\* (emitting ':_s'); every other shape fails, among them a single element that
\* is the empty string.
PlaceholderText(e) ==
    IF isInteger(e) THEN <<Code(":_")>> \o IntPieces(e.n) ELSE <<Code(":_")>> \o User(e.s)

C6_PlaceholderShape ==
    (/\ pc = "done"
     /\ IsSingleTerm(whereIn)
     /\ whereIn.d[1].k = pA
     /\ whereIn.d[1].v.type = "array")
    => LET a == whereIn.d[1].v.a
       IN /\ Len(a) = 1
          /\ isInteger(a[1]) \/ (a[1].type = "string" /\ a[1].s # <<>>)
          /\ sql = Txt(<<"fl_value", "(", jsonColumnName, ", ", "'">>) \o User(pA)
                   \o Txt(<<"'", ")", " = ">>) \o PlaceholderText(a[1])

\* C7: ORDER BY contains 'rank(matchinfo("<table_name>::<s>")) DESC' for a
\* sort term s exactly when s, as written, is a path recorded in
\* fts_properties; the table name such a rank term quotes is an entry of the
\* FTS table names and of FROM, and its suffix is the path of a $match.
SortTermsOf(expr) ==
    IF expr.type = "string" THEN <<expr.s>>
    ELSE IF expr.type = "array" THEN [i \in 1..Len(expr.a) |-> asString(expr.a[i]).s]
    ELSE <<>>

RankText(term) ==
    Txt(<<"rank", "(", "matchinfo", "(", "\"", tableName, "::">>) \o User(term)
    \o Txt(<<"\"", ")", ")", " DESC">>)

C7_RankIffFtsPath ==
    pc = "done" =>
        \A i \in 1..Len(SortTermsOf(sortIn)) :
            LET s == SortTermsOf(sortIn)[i]
            IN /\ Contains(sortSQL, RankText(s)) <=> s \in Range(ftsProperties)
               /\ Contains(sortSQL, RankText(s)) =>
                    /\ \E j \in 1..Len(ftsLog) : ftsLog[j][1] = s
                    /\ namesOut # NamesNotRead => FtsName(s) \in Range(namesOut)
                    /\ fromOut # NotRead => Contains(fromOut, FtsName(s))

C7_Witness ==
    /\ pc = "done"
    /\ \E i \in 1..Len(SortTermsOf(sortIn)) :
          Contains(sortSQL, RankText(SortTermsOf(sortIn)[i]))
    /\ \E i \in 1..Len(SortTermsOf(sortIn)) :
          SortTermsOf(sortIn)[i] \notin Range(ftsProperties)
    /\ fromOut # NotRead
    /\ namesOut # NamesNotRead

\* C8: a non-empty sort term that is no recorded FTS path loses a leading '-'
\* or '+'; the name left emits 'key' for '_id', 'sequence' for '_sequence' and
\* otherwise the fl_value getter over the JSON column the compiler was
\* constructed with; ' DESC' follows iff the prefix was '-'.  An absent sort
\* emits 'key'; the terms of an array are joined by ', '.
ClaimedOrderTerm(s) ==
    LET signed == Len(s) >= 1 /\ s[1] \in {"-", "+"}
        name == IF signed THEN Tail(s) ELSE s
    IN (IF name = pId THEN <<Code("key")>>
        ELSE IF name = pSequence THEN <<Code("sequence")>>
        ELSE Txt(<<"fl_value", "(", jsonColumnName, ", ">>)
             \o writeSQLString(appendPaths(<<>>, name)) \o <<Code(")")>>)
       \o (IF Len(s) >= 1 /\ s[1] = "-" THEN <<Code(" DESC")>> ELSE <<>>)

RECURSIVE JoinTexts(_, _)
JoinTexts(log, i) ==
    IF i > Len(log) THEN <<>>
    ELSE (IF i = 1 THEN <<>> ELSE <<Code(", ")>>) \o log[i][2] \o JoinTexts(log, i + 1)

C8_SortTermText ==
    pc = "done" =>
        /\ sortIn = NullPtr => sortSQL = <<Code("key")>>
        /\ sortIn # NullPtr =>
              /\ sortSQL = JoinTexts(sortLog, 1)
              /\ SortTermsOf(sortIn) = [i \in 1..Len(sortLog) |-> sortLog[i][1]]
        /\ \A i \in 1..Len(sortLog) :
              sortLog[i][1] \notin Range(ftsProperties)
              => sortLog[i][2] = ClaimedOrderTerm(sortLog[i][1])

\* C9: whenever the build of {k: v} succeeds, its WHERE text equals the WHERE
\* text of {"$and": [{k: v}]} up to outer parentheses, and both builds leave
\* the same fts_properties.
AndWrapped(w) == Dict(<<KV(kAnd, Arr(<<w>>))>>)

EqualUpToParens(x, y) ==
    \/ x = y
    \/ x = <<Code("(")>> \o y \o <<Code(")")>>
    \/ y = <<Code("(")>> \o x \o <<Code(")")>>

C9_ImplicitAndIdempotent ==
    (pc = "done" /\ whereIn.type = "dict" /\ Len(whereIn.d) = 1)
    => LET r == parsePredicate(NewParser(tableName, jsonColumnName), AndWrapped(whereIn))
       IN /\ r.st = "ok"
          /\ EqualUpToParens(r.sql, sql)
          /\ r.ftsProperties = ftsProperties

C9_Witness ==
    /\ pc = "done"
    /\ IsSingleTerm(whereIn)
    /\ whereIn.d[1].v.type = "dict"
    /\ ftsProperties # <<>>
    /\ Len(sql) > 1

\* C10: the WHERE text of a successful build is one balanced expression: every
\* '(' is closed by a later ')', the depth is never negative and is zero at the
\* end, and no operand position is empty (no '()', no dangling AND/OR/NOT).
\* FROM is the table name followed by the FTS tables aliased FTS1, FTS2, ...
\* in insertion order.  (The name of a placeholder is read as one token.)
RECURSIVE BalancedFrom(_, _, _, _)
BalancedFrom(ps, i, inLiteral, depth) ==
    IF i > Len(ps) THEN ~inLiteral /\ depth = 0
    ELSE IF inLiteral
    THEN (IF ps[i].t = "'"
          THEN (IF i < Len(ps) /\ ps[i + 1].t = "'" THEN BalancedFrom(ps, i + 2, TRUE, depth)
                ELSE BalancedFrom(ps, i + 1, FALSE, depth))
          ELSE BalancedFrom(ps, i + 1, TRUE, depth))
    ELSE CASE ps[i].u -> BalancedFrom(ps, i + 1, FALSE, depth)
           [] ps[i].t = "'" -> BalancedFrom(ps, i + 1, TRUE, depth)
           [] ps[i].t = "(" -> BalancedFrom(ps, i + 1, FALSE, depth + 1)
           [] ps[i].t = ")" -> depth > 0 /\ BalancedFrom(ps, i + 1, FALSE, depth - 1)
           [] OTHER -> BalancedFrom(ps, i + 1, FALSE, depth)

BinaryWords == {Code(" AND "), Code(" OR ")}

NoEmptyOperand(ps) ==
    /\ ps # <<>> => ps[1] \notin BinaryWords
    /\ ps # <<>> => ps[Len(ps)] \notin BinaryWords \cup {Code("NOT ")}
    /\ \A i \in 1..(Len(ps) - 1) :
          /\ ~(ps[i] = Code("(") /\ ps[i + 1] = Code(")"))
          /\ ~(ps[i] = Code("(") /\ ps[i + 1] \in BinaryWords)
          /\ ~(ps[i] \in BinaryWords \cup {Code("NOT ")}
               /\ ps[i + 1] \in BinaryWords \cup {Code(")")})

RECURSIVE FtsAliases(_)
FtsAliases(k) ==
    IF k > Len(ftsProperties) THEN <<>>
    ELSE FtsAlias(ftsProperties[k], k) \o FtsAliases(k + 1)

C10_WhereBalanced ==
    pc = "done" =>
        /\ whereIn # NullPtr => BalancedFrom(sql, 1, FALSE, 0) /\ NoEmptyOperand(sql)
        /\ fromOut # NotRead => fromOut = <<Code(tableName)>> \o FtsAliases(1)

\* C11: a predicate whose special key is $not succeeds only when its value is
\* an array of exactly one element that is itself a valid predicate (one that
\* the compiler accepts), and then the WHERE text is 'NOT (' + the element's
\* predicate SQL + ')'; a value that is no array, an empty array and an array
\* of two or more elements fail with invalid query.
IsNot(w) == w.type = "dict" /\ getSpecialKey(w).buf /\ getSpecialKey(w).first = kNot

C11_NotTakesOnePredicate ==
    (pc # "new" /\ IsNot(whereIn)) =>
        LET v == getSpecialKey(whereIn).second
            r == parsePredicate(NewParser(tableName, jsonColumnName), v.a[1])
        IN /\ (v.type # "array" \/ Len(v.a) # 1) => pc = "failed"
           /\ pc = "done" =>
                /\ v.type = "array" /\ Len(v.a) = 1
                /\ r.st = "ok"
                /\ sql = Txt(<<"NOT ", "(">>) \o r.sql \o <<Code(")")>>

C11_Witness ==
    /\ pc = "done"
    /\ IsNot(whereIn)
    /\ Len(getSpecialKey(whereIn).second.a) = 1
    /\ Len(sql) > 3

\* C12: for $exists, at a top-level term and inside $elemMatch, the value must
\* be a boolean: true gives the existence test with no prefix, false gives it
\* prefixed by 'NOT ', and a value of any other type (number, string, null,
\* array) is not accepted: the build fails with invalid query.
kExists == <<"$","e","x","i","s","t","s">>

kElemMatch == <<"$","e","l","e","m","M","a","t","c","h">>

HasOperator(v, op) == v.type = "dict" /\ getSpecialKey(v).buf /\ getSpecialKey(v).first = op

TopExists(w) == IsSingleTerm(w) /\ HasOperator(w.d[1].v, kExists)

NestedExists(w) ==
    /\ IsSingleTerm(w)
    /\ HasOperator(w.d[1].v, kElemMatch)
    /\ HasOperator(getSpecialKey(w.d[1].v).second, kExists)

ExistsPayload(w) ==
    IF TopExists(w) THEN getSpecialKey(w.d[1].v).second
    ELSE getSpecialKey(getSpecialKey(w.d[1].v).second).second

C12_ExistsTakesBoolean ==
    (pc # "new" /\ (TopExists(whereIn) \/ NestedExists(whereIn))) =>
        LET v == ExistsPayload(whereIn)
        IN IF v.type = "boolean"
           THEN pc = "done" => (Code("NOT ") \in Range(sql) <=> ~v.b)
           ELSE pc = "failed"

\* C13: every build ends in exactly one of two outcomes, successful completion
\* or an invalid-query failure; the internal assertion on the operator type in
\* parseTerm and parseElemMatchTerm is never reached, whatever operator of
\* kRelationals is selected, inside $elemMatch too.
C13_OnlyDoneOrInvalid == pc \in {"new", "done", "failed"}

\* C14: the WHERE text keeps the boolean grouping of the input tree under SQL
\* precedence (NOT binds tighter than AND, AND tighter than OR): for every
\* nesting of $and, $or, $nor, $not and implicit-AND objects, and every choice
\* of truth values for the atomic terms, the text evaluates to what the tree
\* evaluates to; {"$and": [{"$or": [A, B]}, C]} evaluates as (A OR B) AND C.

\* An atomic term: a key and a literal compared by the implicit $eq.
IsLeaf(v) == v.type \in {"number", "string", "boolean"}

\* The trees the statement is about: connectives over non-empty arrays and
\* objects, down to atomic terms.
RECURSIVE Grouped(_)
Grouped(p) ==
    /\ p.type = "dict"
    /\ Len(p.d) >= 1
    /\ IF getSpecialKey(p).buf
       THEN LET s == getSpecialKey(p)
            IN /\ Len(p.d) = 1
               /\ s.first \in {kAnd, kOr, kNor, kNot}
               /\ s.second.type = "array"
               /\ Len(s.second.a) >= 1
               /\ s.first = kNot => Len(s.second.a) = 1
               /\ \A i \in DOMAIN s.second.a : Grouped(s.second.a[i])
       ELSE \A i \in DOMAIN p.d : IsLeaf(p.d[i].v) \/ Grouped(p.d[i].v)

\* The text of one atomic term under a property path.
TermText(column, path, key, value) ==
    parseTerm([NewParser("kv_default", column) EXCEPT !.propertyPath = path],
              key, value).sql

RECURSIVE AtomsOf(_, _, _)
AtomsOf(column, path, p) ==
    IF getSpecialKey(p).buf
    THEN UNION {AtomsOf(column, path, getSpecialKey(p).second.a[i]) :
                   i \in DOMAIN getSpecialKey(p).second.a}
    ELSE UNION {IF IsLeaf(p.d[i].v)
                THEN {TermText(column, path, p.d[i].k, p.d[i].v)}
                ELSE AtomsOf(column, appendPaths(path, p.d[i].k), p.d[i].v) :
                   i \in DOMAIN p.d}

\* The truth value of the input tree under the truth values tv of its terms.
RECURSIVE EvalTree(_, _, _, _)
EvalTree(column, path, p, tv) ==
    LET s == getSpecialKey(p)
    IN IF s.buf
       THEN CASE s.first = kAnd ->
                   \A i \in DOMAIN s.second.a : EvalTree(column, path, s.second.a[i], tv)
              [] s.first = kOr ->
                   \E i \in DOMAIN s.second.a : EvalTree(column, path, s.second.a[i], tv)
              [] s.first = kNor ->
                   ~\E i \in DOMAIN s.second.a : EvalTree(column, path, s.second.a[i], tv)
              [] OTHER -> ~EvalTree(column, path, s.second.a[1], tv)
       ELSE \A i \in DOMAIN p.d :
               IF IsLeaf(p.d[i].v)
               THEN tv[TermText(column, path, p.d[i].k, p.d[i].v)]
               ELSE EvalTree(column, appendPaths(path, p.d[i].k), p.d[i].v, tv)

\* Where the atomic term that starts at piece i ends: at the next connective
\* or closing parenthesis outside the term's own parentheses.
RECURSIVE AtomEnd(_, _, _)
AtomEnd(ps, i, depth) ==
    IF i > Len(ps) THEN i
    ELSE IF depth = 0 /\ ps[i] \in {Code(" AND "), Code(" OR "), Code(")")} THEN i
    ELSE AtomEnd(ps, i + 1,
                 IF ps[i] = Code("(") THEN depth + 1
                 ELSE IF ps[i] = Code(")") THEN depth - 1 ELSE depth)

\* The SQL reading of the text from piece i on, as [v: truth value, i: next
\* piece]: OR of ANDs of NOTs of a parenthesised expression or an atomic term.
RECURSIVE SqlOr(_, _, _), SqlOrTail(_, _, _), SqlAnd(_, _, _), SqlAndTail(_, _, _),
          SqlNot(_, _, _)
SqlNot(ps, i, tv) ==
    IF ps[i] = Code("NOT ")
    THEN LET r == SqlNot(ps, i + 1, tv) IN [v |-> ~r.v, i |-> r.i]
    ELSE IF ps[i] = Code("(")
    THEN LET r == SqlOr(ps, i + 1, tv) IN [v |-> r.v, i |-> r.i + 1]
    ELSE LET e == AtomEnd(ps, i, 0) IN [v |-> tv[SubSeq(ps, i, e - 1)], i |-> e]

SqlAndTail(ps, r, tv) ==
    IF r.i <= Len(ps) /\ ps[r.i] = Code(" AND ")
    THEN LET n == SqlNot(ps, r.i + 1, tv)
         IN SqlAndTail(ps, [v |-> r.v /\ n.v, i |-> n.i], tv)
    ELSE r

SqlAnd(ps, i, tv) == SqlAndTail(ps, SqlNot(ps, i, tv), tv)

SqlOrTail(ps, r, tv) ==
    IF r.i <= Len(ps) /\ ps[r.i] = Code(" OR ")
    THEN LET n == SqlAnd(ps, r.i + 1, tv)
         IN SqlOrTail(ps, [v |-> r.v \/ n.v, i |-> n.i], tv)
    ELSE r

SqlOr(ps, i, tv) == SqlOrTail(ps, SqlAnd(ps, i, tv), tv)

EvalText(ps, tv) == SqlOr(ps, 1, tv).v

C14_GroupingPreserved ==
    (pc = "done" /\ Grouped(whereIn)) =>
        \A tv \in [AtomsOf(jsonColumnName, <<>>, whereIn) -> BOOLEAN] :
            EvalText(sql, tv) = EvalTree(jsonColumnName, <<>>, whereIn, tv)

====
